---- MODULE Spec2Model ----
(***************************************************************************)
(* Model of src/my_simulator.py: class QuantumComputer, a sparse register  *)
(* (dict from basis-state string to complex amplitude) with the operations *)
(* apply_gate, entangle_qubits, read_state, collapse_to_measurement and    *)
(* the helper _get_amplitude.                                              *)
(*                                                                         *)
(* Numbers.  Every amplitude the gates below can produce has the form      *)
(* (re + i*im) / sqrt(2)^k with integers re, im and k >= 0; it is kept as  *)
(* the triple <<re, im, k>> in lowest terms, and the arithmetic on triples *)
(* is exact.  Python's doubles round (1/sqrt(2) * 1/sqrt(2) is             *)
(* 0.5000000000000001); the model does not represent that rounding, so it  *)
(* speaks about the values up to the tolerance the operations are          *)
(* specified with.  Probabilities are rationals <<n, d>>, d a power of 2.  *)
(*                                                                         *)
(* Register.  A dict is a function from the set of its keys; a basis-state *)
(* string is the sequence of its bits.  Python's dicts iterate in          *)
(* insertion order; the loops of the program produce the same mapping for  *)
(* every iteration order (each output key of apply_gate receives at most   *)
(* two contributions, the pairs swapped by entangle_qubits are disjoint),  *)
(* so the loops are run in lexicographic key order.                        *)
(***************************************************************************)
EXTENDS Integers, Sequences, FiniteSets, TLC

VARIABLES num_qubits, amplitudes, pre, last, in_range, distinct, unitary_only,
          steps

vars == <<num_qubits, amplitudes, pre, last, in_range, distinct, unitary_only,
          steps>>

(* ---------------------------- bounds ----------------------------------- *)

\* largest qubit count a register is constructed with
MaxQubits == 2

\* how many calls are made on one register
MaxSteps == 4

(* ------------------------ exact arithmetic ----------------------------- *)

RECURSIVE Pow2(_)
Pow2(k) == IF k = 0 THEN 1 ELSE 2 * Pow2(k - 1)

Max(a, b) == IF a >= b THEN a ELSE b

CeilDiv(a, b) == (a + b - 1) \div b

\* complex(0.0, 0.0)
AmpZero == <<0, 0, 0>>

\* complex(1.0, 0.0)
AmpOne == <<1, 0, 0>>

\* lowest terms of (re + i*im)/sqrt(2)^k
RECURSIVE Reduce(_)
Reduce(a) ==
    IF a[1] = 0 /\ a[2] = 0 THEN AmpZero
    ELSE IF a[3] >= 2 /\ a[1] % 2 = 0 /\ a[2] % 2 = 0
         THEN Reduce(<<a[1] \div 2, a[2] \div 2, a[3] - 2>>)
         ELSE a

\* complex product  x * y
Mul(x, y) ==
    Reduce(<<x[1] * y[1] - x[2] * y[2], x[1] * y[2] + x[2] * y[1], x[3] + y[3]>>)

\* the numerators of x over the denominator sqrt(2)^k, for k - x[3] even
Lift(x, k) == <<x[1] * Pow2((k - x[3]) \div 2), x[2] * Pow2((k - x[3]) \div 2)>>

\* two values have a common denominator sqrt(2)^k
Commensurable(x, y) == x = AmpZero \/ y = AmpZero \/ (x[3] - y[3]) % 2 = 0

\* complex sum  x + y ; the triples cannot express the sum of two values
\* that are not Commensurable, and the evaluation stops there
Add(x, y) ==
    IF x = AmpZero THEN y
    ELSE IF y = AmpZero THEN x
    ELSE LET k == Max(x[3], y[3])
         IN  IF (x[3] - y[3]) % 2 = 0
             THEN Reduce(<<Lift(x, k)[1] + Lift(y, k)[1],
                           Lift(x, k)[2] + Lift(y, k)[2], k>>)
             ELSE CHOOSE z \in {} : TRUE

\* abs(x)**2 as the rational <<n, d>>
AbsSq(x) == <<x[1] * x[1] + x[2] * x[2], Pow2(x[3])>>

\* the denominator of the literal 1e-9
ThresholdDen == 1000000000

\* abs(x) < 1e-9, i.e. n/d < 1/(ThresholdDen^2), i.e. n < d/ThresholdDen^2
Negligible(x) ==
    AbsSq(x)[1] < CeilDiv(CeilDiv(AbsSq(x)[2], ThresholdDen), ThresholdDen)

\* sum of two rationals whose denominators are powers of 2
RatAdd(p, q) ==
    LET d == Max(p[2], q[2])
    IN  <<p[1] * (d \div p[2]) + q[1] * (d \div q[2]), d>>

\* p < q for rationals with positive denominators
RatLess(p, q) == p[1] * q[2] < q[1] * p[2]

(* --------------------------- basis states ------------------------------ *)

Bit == {0, 1}

\* all bit-strings of length n
BasisStates(n) == [1..n -> Bit]

\* Python's s[i] on a sequence of length n: defined for -n <= i < n
Indexable(i, n) == -n <= i /\ i < n

\* the 1-based position Python's s[i] addresses
Pos(i, n) == IF i >= 0 THEN i + 1 ELSE n + i + 1

\* lexicographic order of two bit-strings of the same length (str.__lt__)
RECURSIVE LexLess(_, _)
LexLess(s, t) ==
    IF s = <<>> \/ t = <<>> THEN s = <<>> /\ t /= <<>>
    ELSE IF Head(s) /= Head(t) THEN Head(s) < Head(t)
         ELSE LexLess(Tail(s), Tail(t))

\* sorted(keys)
RECURSIVE SortedKeys(_)
SortedKeys(K) ==
    IF K = {} THEN <<>>
    ELSE LET m == CHOOSE s \in K : \A t \in K \ {s} : LexLess(s, t)
         IN  <<m>> \o SortedKeys(K \ {m})

\* SetBit as it would be with state_list.insert(i, str(b)): the character is
\* inserted before position i instead of replacing it
SetBitInsert(s, i, b) ==
    SubSeq(s, 1, Pos(i, Len(s)) - 1) \o <<b>> \o SubSeq(s, Pos(i, Len(s)), Len(s))

\* list(basis_state); state_list[i] = str(b); "".join(state_list)
SetBit(s, i, b) == [s EXCEPT ![Pos(i, Len(s))] = b]

(* ----------------------------- the dict -------------------------------- *)

\* {}
EmptyDict == [s \in {} |-> AmpZero]

\* d[k] = v
Put(d, k, v) == [s \in DOMAIN d \cup {k} |-> IF s = k THEN v ELSE d[s]]

\* d.get(k, complex(0.0, 0.0)), the body of _get_amplitude
Get(d, k) == IF k \in DOMAIN d THEN d[k] ELSE AmpZero

\* the register __init__ builds: {'0' * num_qubits: complex(1.0, 0.0)}
InitialRegister(n) == Put(EmptyDict, [i \in 1..n |-> 0], AmpOne)

(* ------------------------------ gates ---------------------------------- *)

\* 1/math.sqrt(2)
InvSqrt2 == <<1, 0, 1>>

Hadamard == <<<<InvSqrt2, InvSqrt2>>, <<InvSqrt2, <<-1, 0, 1>>>>>>

PauliX == <<<<AmpZero, AmpOne>>, <<AmpOne, AmpZero>>>>

\* a matrix a caller may pass although it is not unitary: [[1, 0], [0, 0]]
ProjectZero == <<<<AmpOne, AmpZero>>, <<AmpZero, AmpZero>>>>

\* a unitary matrix with a non-real entry: [[1, 0], [0, 1j]]
PhaseS == <<<<AmpOne, AmpZero>>, <<AmpZero, <<0, 1, 0>>>>>>

\* the matrices apply_gate is called with
Gates == {Hadamard, PauliX, PhaseS, ProjectZero}

Conj(x) == <<x[1], -x[2], x[3]>>

\* M times its conjugate transpose is the identity
IsUnitary(M) ==
    \A i \in 1..2 : \A j \in 1..2 :
        Add(Mul(M[i][1], Conj(M[j][1])), Mul(M[i][2], Conj(M[j][2])))
            = IF i = j THEN AmpOne ELSE AmpZero

(* ---------------------------- apply_gate ------------------------------- *)

\* Contribute as it would be if the contribution were stored instead of
\* added to the total already there
ContributeOverwrite(next, s, amp, M, t, row) ==
    LET bit_to_change == s[Pos(t, Len(s))]
        amp_contribution == Mul(M[row + 1][bit_to_change + 1], amp)
        new_basis_state == SetBit(s, t, row)
    IN  IF Negligible(amp_contribution) THEN next
        ELSE Put(next, new_basis_state, amp_contribution)

\* one pass of the inner loop: the contribution of source state s to row
Contribute(next, s, amp, M, t, row) ==
    LET bit_to_change == s[Pos(t, Len(s))]
        amp_contribution == Mul(M[row + 1][bit_to_change + 1], amp)
        new_basis_state == SetBit(s, t, row)
    IN  IF Negligible(amp_contribution) THEN next
        ELSE Put(next, new_basis_state,
                 Add(Get(next, new_basis_state), amp_contribution))

\* the outer loop over self.amplitudes.items()
RECURSIVE GateLoop(_, _, _, _, _)
GateLoop(next, keys, reg, M, t) ==
    IF keys = <<>> THEN next
    ELSE LET s == Head(keys)
             row0 == Contribute(next, s, reg[s], M, t, 0)
             row1 == Contribute(row0, s, reg[s], M, t, 1)
         IN  GateLoop(row1, Tail(keys), reg, M, t)

\* the register apply_gate leaves when it does not raise
ApplyGate(reg, M, t) == GateLoop(EmptyDict, SortedKeys(DOMAIN reg), reg, M, t)

\* basis_state[target_qubit] raises IndexError on the first item
ApplyGateRaises(reg, t) == \E s \in DOMAIN reg : ~Indexable(t, Len(s))

(* -------------------------- entangle_qubits ---------------------------- *)

InList(x, list) == \E i \in 1..Len(list) : list[i] = x

\* StatesToSwap as it would be without the test of the control bit
RECURSIVE StatesToSwapAnyControl(_, _, _, _)
StatesToSwapAnyControl(list, keys, c, t) ==
    IF keys = <<>> THEN list
    ELSE LET s == Head(keys)
             partner_state == SetBit(s, t, 1 - s[Pos(t, Len(s))])
         IN  IF ~InList(<<partner_state, s>>, list)
             THEN StatesToSwapAnyControl(Append(list, <<s, partner_state>>),
                                         Tail(keys), c, t)
             ELSE StatesToSwapAnyControl(list, Tail(keys), c, t)

\* the first loop: collect the pairs to swap
RECURSIVE StatesToSwap(_, _, _, _)
StatesToSwap(list, keys, c, t) ==
    IF keys = <<>> THEN list
    ELSE LET s == Head(keys)
             partner_state == SetBit(s, t, 1 - s[Pos(t, Len(s))])
         IN  IF s[Pos(c, Len(s))] = 1 /\ ~InList(<<partner_state, s>>, list)
             THEN StatesToSwap(Append(list, <<s, partner_state>>), Tail(keys), c, t)
             ELSE StatesToSwap(list, Tail(keys), c, t)

\* the second loop: swap the two amplitudes of every pair, in place
RECURSIVE SwapLoop(_, _)
SwapLoop(reg, list) ==
    IF list = <<>> THEN reg
    ELSE LET state_a == Head(list)[1]
             state_b == Head(list)[2]
             amp_a == Get(reg, state_a)
             amp_b == Get(reg, state_b)
         IN  SwapLoop(Put(Put(reg, state_a, amp_b), state_b, amp_a), Tail(list))

\* the register entangle_qubits leaves when it does not raise
Entangle(reg, c, t) ==
    SwapLoop(reg, StatesToSwap(<<>>, SortedKeys(DOMAIN reg), c, t))

\* basis_state[control_qubit] raises on the first item; state_list[target_qubit]
\* raises on the first item whose control bit is '1'
EntangleRaises(reg, c, t) ==
    \E s \in DOMAIN reg :
        \/ ~Indexable(c, Len(s))
        \/ /\ Indexable(c, Len(s))
           /\ s[Pos(c, Len(s))] = 1
           /\ ~Indexable(t, Len(s))

(* ---------------------- collapse_to_measurement ------------------------ *)

\* Walk as it would be with  rand <= cumulative_prob
RECURSIVE WalkNonStrict(_, _, _, _)
WalkNonStrict(keys, reg, rand, cumulative_prob) ==
    IF keys = <<>> THEN [hit |-> FALSE, state |-> <<>>]
    ELSE LET cum == RatAdd(cumulative_prob, AbsSq(reg[Head(keys)]))
         IN  IF ~RatLess(cum, rand) THEN [hit |-> TRUE, state |-> Head(keys)]
             ELSE WalkNonStrict(Tail(keys), reg, rand, cum)

\* the loop over sorted_states: the first state with rand < cumulative_prob,
\* or <<>> wrapped as "no hit" when the loop runs to its end
RECURSIVE Walk(_, _, _, _)
Walk(keys, reg, rand, cumulative_prob) ==
    IF keys = <<>> THEN [hit |-> FALSE, state |-> <<>>]
    ELSE LET cum == RatAdd(cumulative_prob, AbsSq(reg[Head(keys)]))
         IN  IF RatLess(rand, cum) THEN [hit |-> TRUE, state |-> Head(keys)]
             ELSE Walk(Tail(keys), reg, rand, cum)

Measure(reg, rand) == Walk(SortedKeys(DOMAIN reg), reg, rand, <<0, 1>>)

\* sorted_states[-1][0] if sorted_states else ""
Fallback(reg) ==
    IF DOMAIN reg = {} THEN <<>>
    ELSE SortedKeys(DOMAIN reg)[Cardinality(DOMAIN reg)]

\* the value collapse_to_measurement returns
CollapseReturn(reg, rand) ==
    IF Measure(reg, rand).hit THEN Measure(reg, rand).state ELSE Fallback(reg)

\* the register collapse_to_measurement leaves
CollapseRegister(reg, rand) ==
    IF Measure(reg, rand).hit
    THEN Put(EmptyDict, Measure(reg, rand).state, AmpOne)
    ELSE reg

(* ----------------------------- read_state ------------------------------ *)

\* probability > 1e-9 for the rational n/d
Printable(x) == AbsSq(x)[1] > AbsSq(x)[2] \div ThresholdDen

\* the basis states read_state prints, in the order it prints them
ReadState(reg) == SelectSeq(SortedKeys(DOMAIN reg), LAMBDA s : Printable(reg[s]))

(* ------------------------------ inputs --------------------------------- *)

\* the qubit indices the operations are called with:
\* the qubits 0..n-1, the first index past the end, the last character
\* addressed from the end, and the first index before the start
Indices(n) == (0..n) \cup {-1, 0 - n - 1}

\* the values random.random() is taken to return
Draws == {<<3, 10>>, <<1, 2>>, <<9, 10>>}

InRange(i) == 0 <= i /\ i < num_qubits

\* the record of a call: what was called, with what, and how it ended
Call(op, gate, c, t, rand, raised, ret) ==
    [op |-> op, gate |-> gate, control |-> c, target |-> t, rand |-> rand,
     raised |-> raised, ret |-> ret]

(* ---------------------------- the machine ------------------------------ *)

Init ==
    /\ num_qubits \in 1..MaxQubits
    /\ amplitudes = InitialRegister(num_qubits)
    /\ pre = amplitudes
    /\ last = Call("__init__", <<>>, 0, 0, <<0, 1>>, FALSE, <<>>)
    /\ in_range = TRUE
    /\ distinct = TRUE
    /\ unitary_only = TRUE
    /\ steps = 0

apply_gate(M, t) ==
    /\ steps < MaxSteps
    /\ steps' = steps + 1
    /\ pre' = amplitudes
    /\ amplitudes' = IF ApplyGateRaises(amplitudes, t) THEN amplitudes
                     ELSE ApplyGate(amplitudes, M, t)
    /\ last' = Call("apply_gate", M, 0, t, <<0, 1>>,
                    ApplyGateRaises(amplitudes, t), <<>>)
    /\ in_range' = (in_range /\ InRange(t))
    /\ unitary_only' = (unitary_only /\ IsUnitary(M))
    /\ UNCHANGED <<num_qubits, distinct>>

entangle_qubits(c, t) ==
    /\ steps < MaxSteps
    /\ steps' = steps + 1
    /\ pre' = amplitudes
    /\ amplitudes' = IF EntangleRaises(amplitudes, c, t) THEN amplitudes
                     ELSE Entangle(amplitudes, c, t)
    /\ last' = Call("entangle_qubits", <<>>, c, t, <<0, 1>>,
                    EntangleRaises(amplitudes, c, t), <<>>)
    /\ in_range' = (in_range /\ InRange(c) /\ InRange(t))
    /\ distinct' = (distinct /\ c /= t)
    /\ UNCHANGED <<num_qubits, unitary_only>>

collapse_to_measurement(rand) ==
    /\ steps < MaxSteps
    /\ steps' = steps + 1
    /\ pre' = amplitudes
    /\ amplitudes' = CollapseRegister(amplitudes, rand)
    /\ last' = Call("collapse_to_measurement", <<>>, 0, 0, rand, FALSE,
                    CollapseReturn(amplitudes, rand))
    /\ UNCHANGED <<num_qubits, in_range, distinct, unitary_only>>

read_state ==
    /\ steps < MaxSteps
    /\ steps' = steps + 1
    /\ pre' = amplitudes
    /\ last' = Call("read_state", <<>>, 0, 0, <<0, 1>>, FALSE, ReadState(amplitudes))
    /\ UNCHANGED <<num_qubits, amplitudes, in_range, distinct, unitary_only>>

_get_amplitude(basis_state) ==
    /\ steps < MaxSteps
    /\ steps' = steps + 1
    /\ pre' = amplitudes
    /\ last' = Call("_get_amplitude", <<>>, 0, 0, <<0, 1>>, FALSE,
                    <<basis_state, Get(amplitudes, basis_state)>>)
    /\ UNCHANGED <<num_qubits, amplitudes, in_range, distinct, unitary_only>>

Next ==
    \/ \E M \in Gates : \E t \in Indices(num_qubits) : apply_gate(M, t)
    \/ \E c \in Indices(num_qubits) : \E t \in Indices(num_qubits) :
           entangle_qubits(c, t)
    \/ \E rand \in Draws : collapse_to_measurement(rand)
    \/ read_state
    \/ \E basis_state \in BasisStates(num_qubits) : _get_amplitude(basis_state)

Spec == Init /\ [][Next]_vars

(* ------------------------ notions of the claims ------------------------ *)

\* the register holds single-entry mapping {s: 1+0i}
Collapsed(reg, s) == reg = Put(EmptyDict, s, AmpOne)

\* the sum of |amplitude|^2 over the first i states in lexicographic order
RECURSIVE RunningSum(_, _)
RunningSum(reg, i) ==
    IF i = 0 THEN <<0, 1>>
    ELSE RatAdd(RunningSum(reg, i - 1), AbsSq(reg[SortedKeys(DOMAIN reg)[i]]))

\* the sum of |amplitude|^2 over the whole register
NormSq(reg) == RunningSum(reg, Cardinality(DOMAIN reg))

\* the rational p is 1
IsOne(p) == p[1] = p[2]

\* |p - 1| <= 1e-6
WithinTolerance(p) ==
    /\ (p[1] - p[2]) * 1000000 <= p[2]
    /\ (p[2] - p[1]) * 1000000 <= p[2]

\* the register after Hadamard on qubit 0 of a fresh 2-qubit register
AfterHadamard == ApplyGate(InitialRegister(2), Hadamard, 0)

\* the register after Hadamard on qubit 0, then entangle_qubits(0, 1)
BellRegister == Entangle(AfterHadamard, 0, 1)

\* the last call was entangle_qubits with two distinct indices in [0, N)
ValidEntangle ==
    /\ last.op = "entangle_qubits"
    /\ InRange(last.control) /\ InRange(last.target)
    /\ last.control /= last.target

(* ------------------------------ claims --------------------------------- *)

\* C1: after any sequence of calls with valid indices (in [0, N), control and
\* target distinct) the register holds no entry whose amplitude has a
\* magnitude below 1e-9, in particular no entry with amplitude 0.
C1_Sparsity ==
    (in_range /\ distinct) =>
        \A s \in DOMAIN amplitudes : ~Negligible(amplitudes[s])

\* C2: collapse_to_measurement on a non-empty register returns a basis state
\* that was present, and leaves exactly {returned state: 1+0i}, also when
\* the running sum never exceeds the draw.
C2_CollapseAlways ==
    (last.op = "collapse_to_measurement" /\ DOMAIN pre /= {}) =>
        /\ last.ret \in DOMAIN pre
        /\ Collapsed(amplitudes, last.ret)

\* C3: on a fresh 2-qubit register, Hadamard on qubit 0 followed by
\* entangle_qubits(0, 1) leaves exactly the keys "00" and "11", each with
\* amplitude 1/sqrt(2).
C3_BellPair ==
    (/\ num_qubits = 2 /\ steps = 2 /\ in_range
     /\ pre = AfterHadamard
     /\ last.op = "entangle_qubits" /\ last.control = 0 /\ last.target = 1) =>
        /\ DOMAIN amplitudes = {<<0, 0>>, <<1, 1>>}
        /\ \A s \in DOMAIN amplitudes : amplitudes[s] = InvSqrt2

\* C4: after entangle_qubits(c, t) with distinct in-range indices, a second
\* entangle_qubits(c, t) yields the mapping the register was before the
\* first call (same keys, same amplitudes).
C4_SelfInverse ==
    (ValidEntangle /\ ~last.raised) =>
        Entangle(amplitudes, last.control, last.target) = pre

\* C5: apply_gate and entangle_qubits called with an index outside [0, N)
\* raise and leave the register unchanged.
C5_IndexRejected ==
    (\/ last.op = "apply_gate" /\ ~InRange(last.target)
     \/ last.op = "entangle_qubits" /\ ~(InRange(last.control) /\ InRange(last.target))) =>
        /\ last.raised
        /\ amplitudes = pre

\* C6: entangle_qubits called with control_qubit = target_qubit, an index
\* that is otherwise in [0, N), raises and
\* leaves the register unchanged.
C6_EqualRejected ==
    (/\ last.op = "entangle_qubits"
     /\ InRange(last.control) /\ last.control = last.target) =>
        /\ last.raised
        /\ amplitudes = pre

\* C7: collapse_to_measurement returns the first state, in lexicographic
\* order, at which the draw is strictly below the running sum of
\* |amplitude|^2, and leaves {that state: 1+0i}; on the Bell-pair register a
\* draw of 0.3 gives "00" and a draw of 0.9 gives "11".
C7_SelectionRule ==
    (last.op = "collapse_to_measurement" /\ DOMAIN pre /= {}) =>
        /\ \A i \in 1..Cardinality(DOMAIN pre) :
              (/\ RatLess(last.rand, RunningSum(pre, i))
               /\ \A j \in 1..(i - 1) : ~RatLess(last.rand, RunningSum(pre, j))) =>
                  /\ last.ret = SortedKeys(DOMAIN pre)[i]
                  /\ Collapsed(amplitudes, last.ret)
        /\ (pre = BellRegister /\ last.rand = <<3, 10>>) =>
              (last.ret = <<0, 0>> /\ Collapsed(amplitudes, <<0, 0>>))
        /\ (pre = BellRegister /\ last.rand = <<9, 10>>) =>
              (last.ret = <<1, 1>> /\ Collapsed(amplitudes, <<1, 1>>))

C7_Witness ==
    /\ last.op = "collapse_to_measurement"
    /\ steps = 3 /\ in_range
    /\ pre = BellRegister
    /\ last.rand = <<9, 10>>
    /\ last.ret = <<1, 1>>
    /\ Collapsed(amplitudes, <<1, 1>>)

\* C8: entangle_qubits with distinct in-range indices leaves every basis
\* state whose control bit is 0 as it was: same amplitude, neither added to
\* nor removed from the register.
C8_ControlZeroFixed ==
    ValidEntangle =>
        \A s \in BasisStates(num_qubits) :
            s[last.control + 1] = 0 =>
                /\ (s \in DOMAIN pre) <=> (s \in DOMAIN amplitudes)
                /\ Get(pre, s) = Get(amplitudes, s)

C8_Witness ==
    /\ ValidEntangle
    /\ amplitudes /= pre
    /\ \E s \in DOMAIN pre : s[last.control + 1] = 0 /\ pre[s] /= AmpZero
    /\ \E s \in DOMAIN pre : s[last.control + 1] = 1 /\ pre[s] /= AmpZero

C10_KeysWellFormed ==
    in_range =>
        /\ DOMAIN amplitudes \subseteq BasisStates(num_qubits)
        /\ Cardinality(DOMAIN amplitudes) <= Pow2(num_qubits)
        /\ last.op \in {"read_state", "_get_amplitude"} => amplitudes = pre

C10_Witness ==
    /\ in_range
    /\ num_qubits = 2
    /\ last.op = "read_state"
    /\ Cardinality(DOMAIN amplitudes) = Pow2(num_qubits)
    /\ Len(last.ret) = Pow2(num_qubits)

====
